---- MODULE Spec2Model ----
(***************************************************************************)
(* Model of the qp-trie of src/src/lib.rs: the Sparse compressed array,    *)
(* the Leaf / Internal / Node representation and Trie::insert.             *)
(*                                                                         *)
(* A Node is a record, tag "Leaf" (key, val) or tag "Internal" (index,     *)
(* nybbles); a Sparse is a record (index = the u32 presence bitmap, data = *)
(* the backing Vec).  Option<T> is a sequence of length 0 (None) or 1      *)
(* (Some).  A `&mut Node` into the tree is the path of Vec positions that  *)
(* leads to it from the root.                                              *)
(***************************************************************************)
EXTENDS Integers, Sequences, FiniteSets, TLC

\* ------------------------------------------------------------------ bounds
KeyLen == 2
MaxInserts == 3
NumVals == 2
MaxSparseLen == 3
MaxLenInserts == 3

\* The key bytes used: 0x34 ^ 0x35 = 0x01 (low nybble only),
\* 0x24 ^ 0x34 = 0x10 (high nybble only), 0x24 ^ 0x35 = 0x11 (both).
ByteSet == {36, 52, 53}
Keys == [1..KeyLen -> ByteSet]
\* byte sequences one byte shorter, exact, and one byte longer than K
KeysAnyLen == UNION { [1..n -> ByteSet] : n \in (KeyLen - 1)..(KeyLen + 1) }
Vals == 1..NumVals
SlotSet == 0..15
EltSet == {"a", "b", "c"}

\* ------------------------------------------------------- integer helpers
RECURSIVE BitAnd(_, _)
BitAnd(a, b) ==
    IF a = 0 \/ b = 0 THEN 0
    ELSE (IF a % 2 = 1 /\ b % 2 = 1 THEN 1 ELSE 0) + 2 * BitAnd(a \div 2, b \div 2)

RECURSIVE BitXor(_, _)
BitXor(a, b) ==
    IF a = 0 /\ b = 0 THEN 0
    ELSE (IF a % 2 # b % 2 THEN 1 ELSE 0) + 2 * BitXor(a \div 2, b \div 2)

RECURSIVE Shr(_, _)
Shr(a, n) == IF n = 0 THEN a ELSE Shr(a \div 2, n - 1)

RECURSIVE CountOnes(_)
CountOnes(a) == IF a = 0 THEN 0 ELSE (a % 2) + CountOnes(a \div 2)

Min(a, b) == IF a <= b THEN a ELSE b

\* Vec::insert(pos, elt), pos counted from 0
VecInsert(s, pos, elt) ==
    SubSeq(s, 1, pos) \o <<elt>> \o SubSeq(s, pos + 1, Len(s))

\* ---------------------------------------------------------------- nybble
Nybble(idx, key) ==
    LET byte == key[(idx \div 2) + 1]
    IN  IF BitAnd(idx, 1) = 0 THEN BitAnd(byte, 15) ELSE Shr(byte, 4)

\* ---------------------------------------------------------------- Sparse
SparseNew == [index |-> 0, data |-> <<>>]

Contains(s, idx) == BitAnd(Shr(s.index, idx), 1) = 1

Actual(s, idx) == Len(s.data) - CountOnes(Shr(s.index, idx))

Get(s, idx) ==
    IF Contains(s, idx) THEN <<s.data[Actual(s, idx) + 1]>> ELSE <<>>

\* get_mut: the reference is the position in data (1-based)
GetMut(s, idx) ==
    IF Contains(s, idx) THEN <<Actual(s, idx) + 1>> ELSE <<>>

\* insert_fresh that only inserts when the slot is marked present
InsertFreshIfPresent(s, idx, elt) ==
    IF Contains(s, idx)
    THEN [index |-> s.index, data |-> VecInsert(s.data, Actual(s, idx), elt)]
    ELSE s

\* insert_fresh that also marks idx in the bitmap
InsertFreshMarking(s, idx, elt) ==
    [index |-> IF Contains(s, idx) THEN s.index ELSE s.index + 2 ^ idx,
     data |-> VecInsert(s.data, Actual(s, idx), elt)]

InsertFresh(s, idx, elt) ==
    [index |-> s.index, data |-> VecInsert(s.data, Actual(s, idx), elt)]

\* ------------------------------------------------- Leaf / Internal / Node
\* the slice index check of key.as_ref()[idx >> 1] in nybble
NybbleInBounds(idx, key) == Shr(idx, 1) < Len(key)

\* the length check of copy_from_slice in Leaf::new: the buffer K holds
\* KeyLen bytes
CopyFromSliceOk(key_bytes) == Len(key_bytes) = KeyLen

LeafNew(key_bytes, val) == [tag |-> "Leaf", key |-> key_bytes, val |-> val]

InternalNew(index) == [tag |-> "Internal", index |-> index, nybbles |-> SparseNew]

InsertFreshLeaf(internal, leaf) ==
    [internal EXCEPT !.nybbles =
        InsertFresh(internal.nybbles, Nybble(internal.index, leaf.key), leaf)]

\* unwrap_leaf / mut_unwrap_internal: ok = FALSE is the debug_unreachable arm
UnwrapLeaf(node) == [ok |-> node.tag = "Leaf", leaf |-> node]

MutUnwrapInternal(node) == [ok |-> node.tag = "Internal", internal |-> node]

\* mem::replace that hands back the new content
MemReplaceReturnsNew(dest, src) == [dest |-> src, old |-> src]

\* mem::replace(dest, src): dest holds src, the old content is returned
MemReplace(dest, src) == [dest |-> src, old |-> dest]

RECURSIVE NodeAt(_, _)
NodeAt(node, path) ==
    IF path = <<>> THEN node
    ELSE NodeAt(node.nybbles.data[path[1]], Tail(path))

RECURSIVE ReplaceAt(_, _, _)
ReplaceAt(node, path, new) ==
    IF path = <<>> THEN new
    ELSE [node EXCEPT !.nybbles.data[path[1]] =
            ReplaceAt(node.nybbles.data[path[1]], Tail(path), new)]

\* the result is the path of the node reached and the least index; fault is
\* TRUE when nybble() indexed past the end of the key on the way
RECURSIVE GetClosestNodeMut(_, _, _, _)
RECURSIVE GetCloserNodeMut(_, _, _, _)
GetClosestNodeMut(node, key, index, path) ==
    LET closer == GetCloserNodeMut(node, key, index, path)
    IN  IF closer # <<>> THEN closer[1]
        ELSE [path |-> path, index |-> index, fault |-> FALSE]

GetCloserNodeMut(node, key, index, path) ==
    IF node.tag = "Leaf" THEN <<[path |-> path, index |-> index, fault |-> FALSE]>>
    ELSE LET idx == node.index
         IN  IF ~NybbleInBounds(idx, key)
             THEN <<[path |-> path, index |-> idx, fault |-> TRUE]>>
             ELSE LET search_nybble == Nybble(idx, key)
                      child == GetMut(node.nybbles, search_nybble)
                  IN  IF child = <<>> THEN <<>>
                      ELSE <<GetClosestNodeMut(node.nybbles.data[child[1]], key, idx,
                                               Append(path, child[1]))>>

\* ------------------------------------------------------------ Trie::insert
TrieNew == <<>>

\* the comparison loop of insert: same = TRUE is the exact-match return,
\* otherwise index is the value of `break`
RECURSIVE CompareLoopShort(_, _, _)
CompareLoopShort(search_key_bytes, leaf_key_bytes, i) ==
    LET min_length == Min(Len(search_key_bytes), Len(leaf_key_bytes)) - 1
    IN  IF i >= min_length
        THEN [same |-> Len(search_key_bytes) = Len(leaf_key_bytes), index |-> i]
        ELSE LET difference == BitXor(search_key_bytes[i + 1], leaf_key_bytes[i + 1])
             IN  IF difference # 0
                 THEN [same |-> FALSE,
                       index |-> IF BitAnd(difference, 240) = 0 THEN i + 1 ELSE i]
                 ELSE CompareLoopShort(search_key_bytes, leaf_key_bytes, i + 1)

RECURSIVE CompareLoopNextByte(_, _, _)
CompareLoopNextByte(search_key_bytes, leaf_key_bytes, i) ==
    LET min_length == Min(Len(search_key_bytes), Len(leaf_key_bytes))
    IN  IF i >= min_length
        THEN [same |-> Len(search_key_bytes) = Len(leaf_key_bytes), index |-> i]
        ELSE LET difference == BitXor(search_key_bytes[i + 1], leaf_key_bytes[i + 1])
             IN  IF difference # 0
                 THEN [same |-> FALSE,
                       index |-> IF BitAnd(difference, 240) = 0 THEN 2 * (i + 1) ELSE i]
                 ELSE CompareLoopNextByte(search_key_bytes, leaf_key_bytes, i + 1)

RECURSIVE CompareLoop(_, _, _)
CompareLoop(search_key_bytes, leaf_key_bytes, i) ==
    LET min_length == Min(Len(search_key_bytes), Len(leaf_key_bytes))
    IN  IF i >= min_length
        THEN [same |-> Len(search_key_bytes) = Len(leaf_key_bytes), index |-> i]
        ELSE LET difference == BitXor(search_key_bytes[i + 1], leaf_key_bytes[i + 1])
             IN  IF difference # 0
                 THEN [same |-> FALSE,
                       index |-> IF BitAnd(difference, 240) = 0 THEN i + 1 ELSE i]
                 ELSE CompareLoop(search_key_bytes, leaf_key_bytes, i + 1)

\* what one call of insert produces: the root it leaves, the returned
\* Option<V>, the arm taken (kind), the path of `closest`, the key of the
\* Leaf the descent stopped at, the fault that ended the call ("none",
\* "index_oob" = slice index panic in nybble, "leaf_len" = copy_from_slice
\* panic in Leaf::new, "unreachable" = a debug_unreachable arm), and whether
\* every debug_assert of insert_fresh held
Result(rt, rv, kind, path, leafKey, fault, assertOk) ==
    [root |-> rt, ret |-> rv, kind |-> kind, path |-> path, leafKey |-> leafKey,
     fault |-> fault, assertOk |-> assertOk]

\* lines 261-274: the split of the Leaf `closest` (at path, under node)
Split(node, path, closest, index, key, val) ==
    LET replaced == MemReplace(closest, InternalNew(index))
        u == UnwrapLeaf(replaced.old)
        m == MutUnwrapInternal(replaced.dest)
        lk == <<closest.key>>
        i1 == InsertFreshLeaf(m.internal, LeafNew(key, val))
        i2 == InsertFreshLeaf(i1, u.leaf)
        a1 == ~Contains(m.internal.nybbles, Nybble(m.internal.index, key))
        a2 == ~Contains(i1.nybbles, Nybble(i1.index, u.leaf.key))
    IN  IF ~u.ok \/ ~m.ok
        THEN Result(<<ReplaceAt(node, path, replaced.dest)>>, <<>>, "split", path, lk,
                    "unreachable", TRUE)
        ELSE IF ~CopyFromSliceOk(key)
        THEN Result(<<ReplaceAt(node, path, m.internal)>>, <<>>, "split", path, lk,
                    "leaf_len", TRUE)
        ELSE IF ~NybbleInBounds(m.internal.index, key)
        THEN Result(<<ReplaceAt(node, path, m.internal)>>, <<>>, "split", path, lk,
                    "index_oob", TRUE)
        ELSE IF ~NybbleInBounds(i1.index, u.leaf.key)
        THEN Result(<<ReplaceAt(node, path, i1)>>, <<>>, "split", path, lk,
                    "index_oob", a1)
        ELSE Result(<<ReplaceAt(node, path, i2)>>, <<>>, "split", path, lk,
                    "none", a1 /\ a2)

\* lines 247-258: the fresh insert at the Internal `closest`
Fresh(node, path, closest, key, val) ==
    IF ~NybbleInBounds(closest.index, key)
    THEN Result(<<node>>, <<>>, "fresh", path, <<>>, "index_oob", TRUE)
    ELSE IF ~CopyFromSliceOk(key)
    THEN Result(<<node>>, <<>>, "fresh", path, <<>>, "leaf_len", TRUE)
    ELSE Result(<<ReplaceAt(node, path,
                     [closest EXCEPT !.nybbles =
                         InsertFresh(closest.nybbles, Nybble(closest.index, key),
                                     LeafNew(key, val))])>>,
                <<>>, "fresh", path, <<>>, "none",
                ~Contains(closest.nybbles, Nybble(closest.index, key)))

Insert(rt, key, val) ==
    IF rt # <<>>
    THEN LET node == rt[1]
             r == GetClosestNodeMut(node, key, 0, <<>>)
             closest == NodeAt(node, r.path)
             least_index == r.index
         IN  IF r.fault
             THEN Result(rt, <<>>, "descent", r.path, <<>>, "index_oob", TRUE)
             ELSE IF closest.tag = "Leaf"
             THEN LET c == CompareLoop(key, closest.key, least_index)
                  IN  IF c.same
                      THEN Result(<<ReplaceAt(node, r.path, [closest EXCEPT !.val = val])>>,
                                  <<closest.val>>, "overwrite", r.path, <<closest.key>>,
                                  "none", TRUE)
                      ELSE Split(node, r.path, closest, c.index, key, val)
             ELSE Fresh(node, r.path, closest, key, val)
    ELSE IF ~CopyFromSliceOk(key)
         THEN Result(rt, <<>>, "empty", <<>>, <<>>, "leaf_len", TRUE)
         ELSE Result(<<LeafNew(key, val)>>, <<>>, "empty", <<>>, <<>>, "none", TRUE)

\* ------------------------------------------------------------------ state
VARIABLES
    root,      \* Trie.root : Option<Node>
    ret,       \* the value returned by the last insert
    outcome,   \* what the last insert did: kind, path of closest, leaf key,
               \* fault, assertOk (see Result)
    hist,      \* the (key, value) pairs inserted so far, in call order
    sp,        \* a Sparse<T> driven directly (specification SpecSparse)
    spIdx,     \* the idx of the last insert_fresh on sp
    spElt      \* the elt of the last insert_fresh on sp

vars == <<root, ret, outcome, hist, sp, spIdx, spElt>>

Init ==
    /\ root = TrieNew
    /\ ret = <<>>
    /\ outcome = [kind |-> "new", path |-> <<>>, leafKey |-> <<>>,
                  fault |-> "none", assertOk |-> TRUE]
    /\ hist = <<>>
    /\ sp = SparseNew
    /\ spIdx = 0
    /\ spElt = "a"

\* Trie::insert(key, val)
InsertAct ==
    /\ Len(hist) < MaxInserts
    /\ \E key \in Keys, val \in Vals :
          LET r == Insert(root, key, val)
          IN  /\ root' = r.root
              /\ ret' = r.ret
              /\ outcome' = [kind |-> r.kind, path |-> r.path, leafKey |-> r.leafKey,
                             fault |-> r.fault, assertOk |-> r.assertOk]
              /\ hist' = Append(hist, [key |-> key, val |-> val])
    /\ UNCHANGED <<sp, spIdx, spElt>>

Next == InsertAct

Spec == Init /\ [][Next]_vars

\* Sparse::insert_fresh(idx, elt) on a free slot (its debug_assert)
SparseInsertFreshAct ==
    /\ Len(sp.data) < MaxSparseLen
    /\ \E idx \in SlotSet, elt \in EltSet :
          /\ ~Contains(sp, idx)
          /\ sp' = InsertFresh(sp, idx, elt)
          /\ spIdx' = idx
          /\ spElt' = elt
    /\ UNCHANGED <<root, ret, outcome, hist>>

NextSparse == SparseInsertFreshAct

SpecSparse == Init /\ [][NextSparse]_vars

\* Trie::insert(key, val) with a key byte sequence of any length
InsertLenAct ==
    /\ Len(hist) < MaxLenInserts
    /\ \E key \in KeysAnyLen, val \in Vals :
          LET r == Insert(root, key, val)
          IN  /\ root' = r.root
              /\ ret' = r.ret
              /\ outcome' = [kind |-> r.kind, path |-> r.path, leafKey |-> r.leafKey,
                             fault |-> r.fault, assertOk |-> r.assertOk]
              /\ hist' = Append(hist, [key |-> key, val |-> val])
    /\ UNCHANGED <<sp, spIdx, spElt>>

NextLen == InsertLenAct

SpecLen == Init /\ [][NextLen]_vars

\* ------------------------------------------------------------ observations
\* lookup by descent: follow Sparse::get at each Internal, succeed at a
\* Leaf whose key equals k
RECURSIVE LookupNode(_, _)
LookupNode(node, k) ==
    IF node.tag = "Leaf"
    THEN IF node.key = k THEN <<node.val>> ELSE <<>>
    ELSE LET child == Get(node.nybbles, Nybble(node.index, k))
         IN  IF child = <<>> THEN <<>> ELSE LookupNode(child[1], k)

Lookup(rt, k) == IF rt = <<>> THEN <<>> ELSE LookupNode(rt[1], k)

\* the paths of all nodes below (and including) node, each prefixed by path
RECURSIVE NodePaths(_, _)
NodePaths(node, path) ==
    IF node.tag = "Leaf" THEN {path}
    ELSE {path} \cup UNION { NodePaths(node.nybbles.data[p], Append(path, p)) :
                              p \in 1..Len(node.nybbles.data) }

AllPaths == IF root = <<>> THEN {} ELSE NodePaths(root[1], <<>>)
LeafPaths == { p \in AllPaths : NodeAt(root[1], p).tag = "Leaf" }
InternalPaths == { p \in AllPaths : NodeAt(root[1], p).tag = "Internal" }

IsPrefix(p, q) == Len(p) <= Len(q) /\ SubSeq(q, 1, Len(p)) = p

HistKeys == { hist[n].key : n \in 1..Len(hist) }

\* the value of the most recent insert of key among the first n calls
RECURSIVE LastValue(_, _)
LastValue(key, n) ==
    IF n = 0 THEN <<>>
    ELSE IF hist[n].key = key THEN <<hist[n].val>> ELSE LastValue(key, n - 1)

\* the trie built from Trie::new() by inserting the pairs of seq in order
RECURSIVE InsertAll(_)
InsertAll(seq) ==
    IF seq = <<>> THEN TrieNew
    ELSE Insert(InsertAll(SubSeq(seq, 1, Len(seq) - 1)),
                seq[Len(seq)].key, seq[Len(seq)].val).root

Perms(n) == { f \in [1..n -> 1..n] : \A a, b \in 1..n : a # b => f[a] # f[b] }

\* first nybble position at which two keys differ (2*KeyLen when none)
FirstDiffNybble(k1, k2) ==
    LET D == { n \in 0..(2 * KeyLen - 1) : Nybble(n, k1) # Nybble(n, k2) }
    IN  IF D = {} THEN 2 * KeyLen ELSE CHOOSE n \in D : \A m \in D : n <= m

\* first byte position (from 0) at which two keys differ
FirstDiffByte(k1, k2) ==
    LET D == { b \in 0..(KeyLen - 1) : k1[b + 1] # k2[b + 1] }
    IN  IF D = {} THEN KeyLen ELSE CHOOSE b \in D : \A m \in D : b <= m

\* longest common prefix of two paths
RECURSIVE CommonPrefix(_, _)
CommonPrefix(p, q) ==
    IF p = <<>> \/ q = <<>> \/ p[1] # q[1] THEN <<>>
    ELSE <<p[1]>> \o CommonPrefix(Tail(p), Tail(q))

\* ------------------------------------------------------------------ claims

\* C1: insert(k, v) returns Some(w), w the value of the most recent earlier
\* insert of k, and returns None exactly when k was never inserted before.
C1_InsertReturnsPrevious ==
    hist # <<>> => ret = LastValue(hist[Len(hist)].key, Len(hist) - 1)

\* C2: round trip: immediately after insert(k, v) a lookup of k yields v.
C2_RoundTrip ==
    hist # <<>> => Lookup(root, hist[Len(hist)].key) = <<hist[Len(hist)].val>>

\* C3: non-interference: an insert of k2 leaves the lookup of every other
\* key k1 unchanged, and the lookups of two distinct keys inserted one after
\* the other do not depend on which of the two was inserted first.
C3_NonInterferenceStep ==
    /\ \A k1 \in Keys :
          k1 # hist'[Len(hist')].key => Lookup(root', k1) = Lookup(root, k1)
    /\ \A k1, k2 \in Keys : \A v1, v2 \in Vals :
          k1 # k2 =>
             LET ab == Insert(Insert(root, k1, v1).root, k2, v2).root
                 ba == Insert(Insert(root, k2, v2).root, k1, v1).root
             IN  Lookup(ab, k1) = Lookup(ba, k1) /\ Lookup(ab, k2) = Lookup(ba, k2)

C3_NonInterference == [][C3_NonInterferenceStep]_vars

\* C4: the number of Leaves equals the number of distinct keys inserted so
\* far, and no two Leaves hold the same key.
C4_OneLeafPerKey ==
    /\ Cardinality(LeafPaths) = Cardinality(HistKeys)
    /\ \A p, q \in LeafPaths :
          p # q => NodeAt(root[1], p).key # NodeAt(root[1], q).key

\* C5: shape determinism: inserting a set of distinct keys in any other
\* order yields the same tree (branch indices, children, stored order).
C5_ShapeDeterminism ==
    Cardinality(HistKeys) = Len(hist) =>
        \A f \in Perms(Len(hist)) :
            InsertAll([n \in 1..Len(hist) |-> hist[f[n]]]) = root

\* C6: prefix sharing: two distinct stored keys whose first differing nybble
\* is d have as deepest common ancestor an Internal with branch index d.
C6_PrefixSharing ==
    \A p, q \in LeafPaths :
        LET kp == NodeAt(root[1], p).key
            kq == NodeAt(root[1], q).key
            anc == NodeAt(root[1], CommonPrefix(p, q))
        IN  (p # q /\ kp # kq) =>
               /\ anc.tag = "Internal"
               /\ anc.index = FirstDiffNybble(kp, kq)

\* C7: insert_fresh(idx, elt) on a free slot sets bit idx: afterwards
\* contains(idx) holds and get(idx) is elt; every other slot is unchanged.
C7_InsertFreshStep ==
    /\ Contains(sp', spIdx')
    /\ Get(sp', spIdx') = <<spElt'>>
    /\ \A j \in SlotSet :
          j # spIdx' => /\ Contains(sp', j) = Contains(sp, j)
                        /\ Get(sp', j) = Get(sp, j)

C7_InsertFreshSetsBit == [][C7_InsertFreshStep]_vars

\* C8: at a split, with i the first byte position at which the search key
\* and the leaf key differ, the new Internal's branch index is 2*i + 1 if
\* (search_byte XOR leaf_byte) & 0xF0 = 0 and 2*i otherwise.
C8_SplitBranchIndex ==
    outcome.kind = "split" =>
        LET sk == hist[Len(hist)].key
            lk == outcome.leafKey[1]
            i == FirstDiffByte(sk, lk)
        IN  NodeAt(root[1], outcome.path).index =
               IF BitAnd(BitXor(sk[i + 1], lk[i + 1]), 240) = 0
               THEN 2 * i + 1 ELSE 2 * i

\* C9: Sparse representation invariant: in every Sparse of the trie the
\* number of set bits of the bitmap equals the length of the backing
\* sequence, and the element of a present index sits at the position given
\* by the number of set bits below it.
C9_SparseRepInvariant ==
    \A p \in InternalPaths :
        LET n == NodeAt(root[1], p)
            s == n.nybbles
        IN  /\ CountOnes(s.index) = Len(s.data)
            /\ \A idx \in SlotSet :
                  Contains(s, idx) =>
                     Actual(s, idx) = CountOnes(s.index % (2 ^ idx))

\* C10: prefix invariant: all Leaves under an Internal with branch index b
\* have identical key nybbles at every position 0..b-1.
C10_PrefixInvariant ==
    \A p \in InternalPaths : \A l1, l2 \in LeafPaths :
        (IsPrefix(p, l1) /\ IsPrefix(p, l2)) =>
            \A n \in 0..(NodeAt(root[1], p).index - 1) :
                n < 2 * KeyLen =>
                    Nybble(n, NodeAt(root[1], l1).key) = Nybble(n, NodeAt(root[1], l2).key)

\* the paths of all nodes of a trie
PathsOf(rt) == IF rt = <<>> THEN {} ELSE NodePaths(rt[1], <<>>)

\* a node without its value and without its children
Skel(node) ==
    IF node.tag = "Leaf" THEN [tag |-> "Leaf", key |-> node.key]
    ELSE [tag |-> "Internal", index |-> node.index,
          bitmap |-> node.nybbles.index, len |-> Len(node.nybbles.data)]

LastKey == hist[Len(hist)].key
LastVal == hist[Len(hist)].val

\* C11: when the descent stops at an Internal and a fresh Leaf is inserted
\* there with result None, the search key is not stored in any Leaf of the
\* trie the call started from.
C11_FreshKeyAbsentStep ==
    (outcome'.kind = "fresh" /\ outcome'.fault = "none" /\ ret' = <<>>) =>
        \A p \in LeafPaths : NodeAt(root[1], p).key # hist'[Len(hist')].key

C11_FreshKeyAbsent == [][C11_FreshKeyAbsentStep]_vars

\* C12: no two children of the same Internal have the same nybble at that
\* node's branch index (so every insert_fresh_leaf goes to a free slot).
C12_DistinctChildNybbles ==
    \A p \in InternalPaths :
        LET n == NodeAt(root[1], p)
        IN  \A a, b \in 1..Len(n.nybbles.data) :
                a # b =>
                    \A la, lb \in LeafPaths :
                        (IsPrefix(Append(p, a), la) /\ IsPrefix(Append(p, b), lb)) =>
                            Nybble(n.index, NodeAt(root[1], la).key)
                                # Nybble(n.index, NodeAt(root[1], lb).key)

\* C13 speaks of an Internal that is the child of another Internal; this
\* states that no reachable trie has one (every Internal is the root).
NoNestedInternal == \A p \in InternalPaths : p = <<>>

\* C14: after every completed insert every Internal holds at least 2
\* children; two keys that differ only in their final byte, inserted into an
\* empty trie, give exactly one Internal with both leaves as its children.
C14_AtLeastTwoChildren ==
    /\ \A p \in InternalPaths : Len(NodeAt(root[1], p).nybbles.data) >= 2
    /\ ( /\ Len(hist) = 2
         /\ SubSeq(hist[1].key, 1, KeyLen - 1) = SubSeq(hist[2].key, 1, KeyLen - 1)
         /\ hist[1].key[KeyLen] # hist[2].key[KeyLen] )
       => /\ InternalPaths = {<<>>}
          /\ Len(root[1].nybbles.data) = 2
          /\ { root[1].nybbles.data[n] : n \in 1..2 }
               = { LeafNew(hist[n].key, hist[n].val) : n \in 1..2 }

C14_Witness ==
    /\ Len(hist) = 2
    /\ SubSeq(hist[1].key, 1, KeyLen - 1) = SubSeq(hist[2].key, 1, KeyLen - 1)
    /\ hist[1].key[KeyLen] # hist[2].key[KeyLen]
    /\ outcome.kind = "split"
    /\ InternalPaths = {<<>>}

\* C15: whenever insert returns Some(old), the Leaf whose value was replaced
\* has exactly the inserted key, old is its previous value, and the shape,
\* the branch indices, the keys and all other values are unchanged.
C15_OverwriteFrameStep ==
    ret' # <<>> =>
        LET p == outcome'.path
            k == hist'[Len(hist')].key
            v == hist'[Len(hist')].val
        IN  /\ p \in PathsOf(root)
            /\ NodeAt(root[1], p).tag = "Leaf"
            /\ NodeAt(root[1], p).key = k
            /\ ret' = <<NodeAt(root[1], p).val>>
            /\ PathsOf(root') = PathsOf(root)
            /\ \A q \in PathsOf(root) :
                  /\ Skel(NodeAt(root'[1], q)) = Skel(NodeAt(root[1], q))
                  /\ (q # p /\ NodeAt(root[1], q).tag = "Leaf")
                        => NodeAt(root'[1], q).val = NodeAt(root[1], q).val
            /\ NodeAt(root'[1], p).val = v

C15_OverwriteFrame == [][C15_OverwriteFrameStep]_vars

C15_Witness ==
    /\ outcome.kind = "overwrite"
    /\ ret # <<>>
    /\ ret # <<LastVal>>
    /\ NodeAt(root[1], outcome.path).val = LastVal

\* C16: with keys of the fixed length no insert faults, and every branch
\* index stored addresses a byte inside the key (index >> 1 < key length).
C16_NoFault ==
    /\ outcome.fault = "none"
    /\ \A p \in InternalPaths : Shr(NodeAt(root[1], p).index, 1) < KeyLen

C16_Witness ==
    /\ outcome.kind = "fresh"
    /\ outcome.fault = "none"
    /\ root[1].index = KeyLen

\* C17: the unreachable-variant arms of unwrap_leaf and mut_unwrap_internal
\* are never reached by any insert.
C17_NoUnreachable == outcome.fault # "unreachable"

C17_Witness ==
    /\ outcome.kind = "split"
    /\ outcome.fault = "none"
    /\ root[1].tag = "Internal"
    /\ Len(root[1].nybbles.data) = 2

\* C18: debug_assert!(!self.contains(idx)) holds at every insert_fresh call
\* made by insert.
C18_AssertHolds == outcome.assertOk

C18_Witness ==
    /\ outcome.kind = "fresh"
    /\ outcome.fault = "none"
    /\ outcome.assertOk
    /\ \E n \in 1..(Len(root[1].nybbles.data) - 1) :
          Nybble(root[1].index, root[1].nybbles.data[n].key)
              = Nybble(root[1].index, LastKey)

\* C19: an insert whose key is not exactly KeyLen bytes long fails and
\* leaves the trie exactly as it was before the call.
C19_WrongLengthStep ==
    Len(hist'[Len(hist')].key) # KeyLen =>
        /\ outcome'.fault # "none"
        /\ root' = root

C19_WrongLengthLeavesTrie == [][C19_WrongLengthStep]_vars

====
